---- MODULE Spec2Model ----
(***************************************************************************)
(* Model of streamlit_app.py: the token evaluation cycle                   *)
(* (fetch_and_save_data), the in-memory blacklists, the SQLite table of    *)
(* market records and the historical scan (analyze_data).                  *)
(*                                                                         *)
(* Numbers are integers.  Supply shares and the bundled-supply threshold   *)
(* are in hundredths (0.8 is 80).  The comparisons x < max * 0.5,          *)
(* x < max * 0.1 and x > mean * 10 are cross-multiplied, which is exact    *)
(* over the rationals.                                                     *)
(***************************************************************************)
EXTENDS Integers, Sequences, FiniteSets, TLC

VARIABLES COIN_BLACKLIST, DEV_BLACKLIST, db, pc, tokIdx, pairs, cycle,
          cur, history, rug_pulls, pumps, sent

vars == <<COIN_BLACKLIST, DEV_BLACKLIST, db, pc, tokIdx, pairs, cycle,
          cur, history, rug_pulls, pumps, sent>>

(***************************************************************************)
(* Bounds of the model.                                                    *)
(***************************************************************************)
MaxCycles == 2
MaxEvals == 2
MaxPairs == 2
MaxHist == 3
MaxWallets == 4

(***************************************************************************)
(* Configuration (config.json, read at lines 25-31).                       *)
(***************************************************************************)
MIN_VOLUME_USD == 2
MIN_LIQUIDITY_USD == 2
MIN_MARKET_CAP_USD == 2
MAX_FAKE_VOLUME_PERCENTAGE == 10
BUNDLED_SUPPLY_THRESHOLD == 80

\* line 177: the token list of a cycle
tokens == <<"T1", "T2">>

Tokens == {tokens[i] : i \in 1..Len(tokens)}

\* developer addresses a pair may carry; "" is the default of line 185
Devs == {"", "D1"}

\* seeds of the two blacklists (lines 30-31)
CoinSeeds == {{}}
DevSeeds == {{}}

(***************************************************************************)
(* Sequence helpers.                                                       *)
(***************************************************************************)
RECURSIVE SumSeq(_)
SumSeq(s) == IF s = <<>> THEN 0 ELSE Head(s) + SumSeq(Tail(s))

RECURSIVE MaxSeq(_)
MaxSeq(s) == IF Len(s) = 1 THEN s[1]
             ELSE LET m == MaxSeq(Tail(s)) IN IF s[1] > m THEN s[1] ELSE m

\* list(...)[:n]
Take(s, n) == SubSeq(s, 1, IF Len(s) < n THEN Len(s) ELSE n)

\* is_blacklisted taking an empty developer address for an unknown one,
\* which no blacklist entry matches
is_blacklisted_skip_empty(token_address, dev_address) ==
    \/ token_address \in COIN_BLACKLIST
    \/ (dev_address # "" /\ dev_address \in DEV_BLACKLIST)

\* is_blacklisted with "and" for "or"
is_blacklisted_both(token_address, dev_address) ==
    token_address \in COIN_BLACKLIST /\ dev_address \in DEV_BLACKLIST

(***************************************************************************)
(* is_blacklisted, lines 67-68.                                            *)
(***************************************************************************)
is_blacklisted(token_address, dev_address) ==
    token_address \in COIN_BLACKLIST \/ dev_address \in DEV_BLACKLIST

(***************************************************************************)
(* check_rugcheck, lines 71-79.  A response is the HTTP outcome: status    *)
(* code "200" with a body, another code, or "raise" when requests.get      *)
(* throws.  A status field absent from the body is NoKey.  The supply      *)
(* distribution is the list of the mapping's values in the mapping's own   *)
(* order.                                                                  *)
(***************************************************************************)
NoKey == "<absent>"

\* check_rugcheck whose failure branch reports a passing status
check_rugcheck_fail_open(resp) ==
    IF resp.code = "200"
    THEN [status |-> IF resp.status = NoKey THEN "Unknown" ELSE resp.status,
          supply_distribution |-> resp.supply]
    ELSE [status |-> "Good", supply_distribution |-> <<>>]

check_rugcheck(resp) ==
    IF resp.code = "200"
    THEN [status |-> IF resp.status = NoKey THEN "Unknown" ELSE resp.status,
          supply_distribution |-> resp.supply]
    ELSE [status |-> "Unknown", supply_distribution |-> <<>>]

(***************************************************************************)
(* is_bundled_supply, lines 82-87.                                         *)
(***************************************************************************)
is_bundled_supply(supply_distribution) ==
    IF supply_distribution = <<>>
    THEN FALSE
    ELSE LET top_wallets == Take(supply_distribution, 3)
             total_supply_percentage == SumSeq(top_wallets)
         IN total_supply_percentage > BUNDLED_SUPPLY_THRESHOLD

\* analyze_fake_volume reading the body of the response whatever its status
analyze_fake_volume_reads_body(resp) ==
    IF resp.has_fake THEN resp.fake ELSE 0

(***************************************************************************)
(* analyze_fake_volume, lines 90-105.                                      *)
(***************************************************************************)
analyze_fake_volume(resp) ==
    IF resp.code = "200"
    THEN IF resp.has_fake THEN resp.fake ELSE 0
    ELSE 0

(***************************************************************************)
(* execute_trade, lines 108-123.                                           *)
(***************************************************************************)
execute_trade(resp) == resp.code = "200"

(***************************************************************************)
(* Inputs of the cycle.                                                    *)
(***************************************************************************)
\* what DexScreener may report for one pair (lines 185, 190-192, 223);
\* the first two pass the filters of line 195, each of the others misses one
PairMetrics ==
    { [priceUsd |-> 20, volume |-> 2, liquidity |-> 30, fdv |-> 2],
      [priceUsd |-> 4,  volume |-> 2, liquidity |-> 2,  fdv |-> 2],
      [priceUsd |-> 4,  volume |-> 1, liquidity |-> 2,  fdv |-> 2],
      [priceUsd |-> 4,  volume |-> 2, liquidity |-> 1,  fdv |-> 2],
      [priceUsd |-> 4,  volume |-> 2, liquidity |-> 2,  fdv |-> 1] }

\* supply distributions RugCheck may report with status "Good", as the list
\* of the mapping's values in the mapping's order: one at the threshold, one
\* above it
SupplyDistributions == { <<40, 30, 10>>, <<50, 30, 10, 5>> }

RugStatuses == {"Good", "good", "Unknown", "", NoKey}

RugResponses ==
    { [code |-> "200", status |-> "Good", supply |-> sd] : sd \in SupplyDistributions }
    \cup { [code |-> "200", status |-> st, supply |-> <<50, 30, 10, 5>>] :
              st \in RugStatuses \ {"Good"} }
    \cup { [code |-> "500", status |-> NoKey, supply |-> <<>>],
           [code |-> "raise", status |-> NoKey, supply |-> <<>>] }

\* a failed lookup carries a body that analyze_fake_volume does not read
FakeVolumeResponses ==
    { [code |-> "200", has_fake |-> TRUE, fake |-> f] :
         f \in {MAX_FAKE_VOLUME_PERCENTAGE, MAX_FAKE_VOLUME_PERCENTAGE + 1} }
    \cup { [code |-> "500", has_fake |-> TRUE, fake |-> MAX_FAKE_VOLUME_PERCENTAGE + 1],
           [code |-> "raise", has_fake |-> FALSE, fake |-> 0] }

\* outcome of a POST to BonkBot or to Telegram
PostResponses == { [code |-> "200"], [code |-> "500"], [code |-> "raise"] }

\* outcome of the INSERT of save_to_db: done, or sqlite3 raises
InsertOutcomes == {"ok", "raise"}

NotReached == "<not reached>"

(***************************************************************************)
(* save_to_db, lines 139-147: the row appended to the table.  The id is    *)
(* the autoincrement key, the timestamp the clock at the insert; the clock *)
(* ticks once per evaluated pair.                                          *)
(***************************************************************************)
save_to_db(table, token_address, price, volume, liquidity, market_cap, dev_address, fake_volume_percentage, rugcheck_status, bundled, clock) ==
    Append(table,
           [id |-> Len(table) + 1,
            token_address |-> token_address,
            price_usd |-> price,
            volume_usd |-> volume,
            liquidity_usd |-> liquidity,
            market_cap_usd |-> market_cap,
            dev_address |-> dev_address,
            fake_volume_percentage |-> fake_volume_percentage,
            rugcheck_status |-> rugcheck_status,
            is_bundled_supply |-> bundled,
            timestamp |-> clock])

(***************************************************************************)
(* The body of the loop over pairs, lines 185-235, for one pair: the set   *)
(* of ways the iteration can go, one for each outcome of the collaborator  *)
(* calls it makes (an outcome is drawn where the call is made).  A result  *)
(* says which branch ended the iteration (verdict, and gate: 1-5 for the   *)
(* five checks, 6 for the lines after them), the calls made in order,      *)
(* whether the blacklists get the pair's token and developer (ban),        *)
(* whether a row is inserted, whether an exception left the loop (raised), *)
(* and the values of the locals and the response codes seen.               *)
(***************************************************************************)
Outcome(verdict, gate, calls, ban, insert, raised, rc, fake, codes) ==
    [verdict |-> verdict, gate |-> gate, calls |-> calls, ban |-> ban,
     insert |-> insert, raised |-> raised, rugcheck_status |-> rc.status,
     supply_distribution |-> rc.supply_distribution,
     fake_volume_percentage |-> fake, codes |-> codes]

NoCodes == [rug |-> "", fake |-> "", trade |-> "", notify |-> ""]

NoRugCheck == [status |-> NotReached, supply_distribution |-> <<>>]

\* lines 233-235 with the notification sent whatever execute_trade returns
TradeAndNotify_always_notify(rc, fvp, codes) ==
    LET c4 == <<"rugcheck", "fake_volume", "persist", "trade">>
        Accept(calls, raised, cd) ==
            Outcome("Accepted", 6, calls, FALSE, TRUE, raised, rc, fvp, cd)
    IN UNION { LET ct == [codes EXCEPT !.trade = tr.code]
               IN IF tr.code = "raise"
                  THEN {Accept(c4, TRUE, ct)}
                  ELSE {Accept(Append(c4, "notify"), tg.code = "raise",
                               [ct EXCEPT !.notify = tg.code]) :
                           tg \in PostResponses} :
               tr \in PostResponses }

\* lines 233-235, after the row is in the table
TradeAndNotify(rc, fvp, codes) ==
    LET c4 == <<"rugcheck", "fake_volume", "persist", "trade">>
        Accept(calls, raised, cd) ==
            Outcome("Accepted", 6, calls, FALSE, TRUE, raised, rc, fvp, cd)
    IN UNION { LET ct == [codes EXCEPT !.trade = tr.code]
               IN IF tr.code = "raise"
                  THEN {Accept(c4, TRUE, ct)}
                  ELSE IF execute_trade(tr)
                       THEN {Accept(Append(c4, "notify"), tg.code = "raise",
                                    [ct EXCEPT !.notify = tg.code]) :
                                tg \in PostResponses}
                       ELSE {Accept(c4, FALSE, ct)} :
               tr \in PostResponses }

\* lines 215-231 with >= for > at line 216
FakeVolumeAndSave_ge(rc, codes) ==
    UNION { LET cf == [codes EXCEPT !.fake = fv.code]
            IN IF fv.code = "raise"
               THEN {Outcome("Aborted", 5, <<"rugcheck", "fake_volume">>, FALSE, FALSE,
                             TRUE, rc, 0, cf)}
               ELSE LET fake_volume_percentage == analyze_fake_volume(fv)
                    IN IF fake_volume_percentage >= MAX_FAKE_VOLUME_PERCENTAGE
                       THEN {Outcome("RejectedFakeVolume", 5, <<"rugcheck", "fake_volume">>,
                                     FALSE, FALSE, FALSE, rc, fake_volume_percentage, cf)}
                       ELSE UNION { IF ins = "raise"
                                    THEN {Outcome("PersistFailed", 6,
                                                  <<"rugcheck", "fake_volume", "persist">>,
                                                  FALSE, FALSE, TRUE, rc,
                                                  fake_volume_percentage, cf)}
                                    ELSE TradeAndNotify(rc, fake_volume_percentage, cf) :
                                    ins \in InsertOutcomes } :
            fv \in FakeVolumeResponses }

\* lines 215-231 with the exception of the insert caught and passed over, so
\* that the iteration goes on to line 233
FakeVolumeAndSave_swallow(rc, codes) ==
    UNION { LET cf == [codes EXCEPT !.fake = fv.code]
            IN IF fv.code = "raise"
               THEN {Outcome("Aborted", 5, <<"rugcheck", "fake_volume">>, FALSE, FALSE,
                             TRUE, rc, 0, cf)}
               ELSE LET fake_volume_percentage == analyze_fake_volume(fv)
                    IN IF fake_volume_percentage > MAX_FAKE_VOLUME_PERCENTAGE
                       THEN {Outcome("RejectedFakeVolume", 5, <<"rugcheck", "fake_volume">>,
                                     FALSE, FALSE, FALSE, rc, fake_volume_percentage, cf)}
                       ELSE UNION { IF ins = "raise"
                                    THEN {[o EXCEPT !.verdict = "PersistFailed",
                                                    !.insert = FALSE] :
                                             o \in TradeAndNotify(rc, fake_volume_percentage,
                                                                  cf)}
                                    ELSE TradeAndNotify(rc, fake_volume_percentage, cf) :
                                    ins \in InsertOutcomes } :
            fv \in FakeVolumeResponses }

\* lines 215-231, once the pair is past the bundled-supply check
FakeVolumeAndSave(rc, codes) ==
    UNION { LET cf == [codes EXCEPT !.fake = fv.code]
            IN IF fv.code = "raise"
               THEN {Outcome("Aborted", 5, <<"rugcheck", "fake_volume">>, FALSE, FALSE,
                             TRUE, rc, 0, cf)}
               ELSE LET fake_volume_percentage == analyze_fake_volume(fv)
                    IN IF fake_volume_percentage > MAX_FAKE_VOLUME_PERCENTAGE
                       THEN {Outcome("RejectedFakeVolume", 5, <<"rugcheck", "fake_volume">>,
                                     FALSE, FALSE, FALSE, rc, fake_volume_percentage, cf)}
                       ELSE UNION { IF ins = "raise"
                                    THEN {Outcome("PersistFailed", 6,
                                                  <<"rugcheck", "fake_volume", "persist">>,
                                                  FALSE, FALSE, TRUE, rc,
                                                  fake_volume_percentage, cf)}
                                    ELSE TradeAndNotify(rc, fake_volume_percentage, cf) :
                                    ins \in InsertOutcomes } :
            fv \in FakeVolumeResponses }

\* lines 200-212 without the continue of line 212: a bundled supply is
\* reported and banned, and the iteration goes on to line 215
RugCheckGates_no_continue(codes, rc) ==
    IF rc.status # "Good"
    THEN {Outcome("RejectedRugCheck", 3, <<"rugcheck">>, TRUE, FALSE, FALSE, rc, 0, codes)}
    ELSE IF is_bundled_supply(rc.supply_distribution)
         THEN {[o EXCEPT !.verdict = "RejectedBundledSupply", !.gate = 4, !.ban = TRUE] :
                  o \in FakeVolumeAndSave(rc, codes)}
         ELSE FakeVolumeAndSave(rc, codes)

\* lines 200-212 without the two adds of lines 210-211
RugCheckGates_no_ban(codes, rc) ==
    IF rc.status # "Good"
    THEN {Outcome("RejectedRugCheck", 3, <<"rugcheck">>, TRUE, FALSE, FALSE, rc, 0, codes)}
    ELSE IF is_bundled_supply(rc.supply_distribution)
         THEN {Outcome("RejectedBundledSupply", 4, <<"rugcheck">>, FALSE, FALSE, FALSE,
                       rc, 0, codes)}
         ELSE FakeVolumeAndSave(rc, codes)

\* lines 200-212
RugCheckGates(codes, rc) ==
    IF rc.status # "Good"
    THEN {Outcome("RejectedRugCheck", 3, <<"rugcheck">>, TRUE, FALSE, FALSE, rc, 0, codes)}
    ELSE IF is_bundled_supply(rc.supply_distribution)
         THEN {Outcome("RejectedBundledSupply", 4, <<"rugcheck">>, TRUE, FALSE, FALSE,
                       rc, 0, codes)}
         ELSE FakeVolumeAndSave(rc, codes)

\* lines 185-200 with the rug-check call of line 200 moved before the filters
Evaluate_rugcheck_first(token, pair) ==
    LET dev_address == pair.devAddress
        volume == pair.volume
        liquidity == pair.liquidity
        market_cap == pair.fdv
    IN IF is_blacklisted(token, dev_address)
       THEN {Outcome("RejectedBlacklisted", 1, <<>>, FALSE, FALSE, FALSE,
                     NoRugCheck, 0, NoCodes)}
       ELSE UNION { LET cr == [NoCodes EXCEPT !.rug = rug.code]
                    IN IF rug.code = "raise"
                       THEN {Outcome("Aborted", 3, <<"rugcheck">>, FALSE, FALSE, TRUE,
                                     NoRugCheck, 0, cr)}
                       ELSE IF volume < MIN_VOLUME_USD \/ liquidity < MIN_LIQUIDITY_USD
                               \/ market_cap < MIN_MARKET_CAP_USD
                       THEN {Outcome("RejectedFilterThreshold", 2, <<"rugcheck">>, FALSE,
                                     FALSE, FALSE, check_rugcheck(rug), 0, cr)}
                       ELSE RugCheckGates(cr, check_rugcheck(rug)) :
                    rug \in RugResponses }

\* lines 185-200 with "and" for "or" in the filter of line 195
Evaluate_filters_and(token, pair) ==
    LET dev_address == pair.devAddress
        volume == pair.volume
        liquidity == pair.liquidity
        market_cap == pair.fdv
    IN IF is_blacklisted(token, dev_address)
       THEN {Outcome("RejectedBlacklisted", 1, <<>>, FALSE, FALSE, FALSE,
                     NoRugCheck, 0, NoCodes)}
       ELSE IF volume < MIN_VOLUME_USD /\ liquidity < MIN_LIQUIDITY_USD
               /\ market_cap < MIN_MARKET_CAP_USD
       THEN {Outcome("RejectedFilterThreshold", 2, <<>>, FALSE, FALSE, FALSE,
                     NoRugCheck, 0, NoCodes)}
       ELSE UNION { LET cr == [NoCodes EXCEPT !.rug = rug.code]
                    IN IF rug.code = "raise"
                       THEN {Outcome("Aborted", 3, <<"rugcheck">>, FALSE, FALSE, TRUE,
                                     NoRugCheck, 0, cr)}
                       ELSE RugCheckGates(cr, check_rugcheck(rug)) :
                    rug \in RugResponses }

\* lines 185-200 with a pair skipped at line 186 also when the table already
\* holds a row of its token
Evaluate_skip_stored(token, pair) ==
    LET dev_address == pair.devAddress
        volume == pair.volume
        liquidity == pair.liquidity
        market_cap == pair.fdv
    IN IF is_blacklisted(token, dev_address)
          \/ \E k \in 1..Len(db) : db[k].token_address = token
       THEN {Outcome("RejectedBlacklisted", 1, <<>>, FALSE, FALSE, FALSE,
                     NoRugCheck, 0, NoCodes)}
       ELSE IF volume < MIN_VOLUME_USD \/ liquidity < MIN_LIQUIDITY_USD
               \/ market_cap < MIN_MARKET_CAP_USD
       THEN {Outcome("RejectedFilterThreshold", 2, <<>>, FALSE, FALSE, FALSE,
                     NoRugCheck, 0, NoCodes)}
       ELSE UNION { LET cr == [NoCodes EXCEPT !.rug = rug.code]
                    IN IF rug.code = "raise"
                       THEN {Outcome("Aborted", 3, <<"rugcheck">>, FALSE, FALSE, TRUE,
                                     NoRugCheck, 0, cr)}
                       ELSE RugCheckGates(cr, check_rugcheck(rug)) :
                    rug \in RugResponses }

\* lines 185-200
Evaluate(token, pair) ==
    LET dev_address == pair.devAddress
        volume == pair.volume
        liquidity == pair.liquidity
        market_cap == pair.fdv
    IN IF is_blacklisted(token, dev_address)
       THEN {Outcome("RejectedBlacklisted", 1, <<>>, FALSE, FALSE, FALSE,
                     NoRugCheck, 0, NoCodes)}
       ELSE IF volume < MIN_VOLUME_USD \/ liquidity < MIN_LIQUIDITY_USD
               \/ market_cap < MIN_MARKET_CAP_USD
       THEN {Outcome("RejectedFilterThreshold", 2, <<>>, FALSE, FALSE, FALSE,
                     NoRugCheck, 0, NoCodes)}
       ELSE UNION { LET cr == [NoCodes EXCEPT !.rug = rug.code]
                    IN IF rug.code = "raise"
                       THEN {Outcome("Aborted", 3, <<"rugcheck">>, FALSE, FALSE, TRUE,
                                     NoRugCheck, 0, cr)}
                       ELSE RugCheckGates(cr, check_rugcheck(rug)) :
                    rug \in RugResponses }

(***************************************************************************)
(* analyze_data, lines 150-173.  df is the table in row order; a group is  *)
(* the rows of one token in that order, iloc[-1] its last row.             *)
(***************************************************************************)
Group(df, t) == SelectSeq(df, LAMBDA r : r.token_address = t)

Column(x, c) == [i \in 1..Len(x) |-> x[i][c]]

iloc_last(col) == col[Len(col)]

GroupKeys(df) == {df[i].token_address : i \in 1..Len(df)}

\* the lambda of lines 157-158 with "or" for "and"
rug_pull_lambda_or(x) ==
    \/ 2 * iloc_last(Column(x, "price_usd")) < MaxSeq(Column(x, "price_usd"))
    \/ 10 * iloc_last(Column(x, "liquidity_usd")) < MaxSeq(Column(x, "liquidity_usd"))

\* the lambda of lines 157-158 with <= for <
rug_pull_lambda_nonstrict(x) ==
    /\ 2 * iloc_last(Column(x, "price_usd")) <= MaxSeq(Column(x, "price_usd"))
    /\ 10 * iloc_last(Column(x, "liquidity_usd")) <= MaxSeq(Column(x, "liquidity_usd"))

\* the lambda of lines 157-158
rug_pull_lambda(x) ==
    /\ 2 * iloc_last(Column(x, "price_usd")) < MaxSeq(Column(x, "price_usd"))
    /\ 10 * iloc_last(Column(x, "liquidity_usd")) < MaxSeq(Column(x, "liquidity_usd"))

\* the lambda of lines 167-168 without the volume condition
pump_lambda_price_only(x) ==
    iloc_last(Column(x, "price_usd")) > MaxSeq(Column(x, "price_usd")) * 2

\* the lambda of lines 167-168 with >= for > in the price comparison
pump_lambda_nonstrict_price(x) ==
    /\ iloc_last(Column(x, "price_usd")) >= MaxSeq(Column(x, "price_usd")) * 2
    /\ Len(x) * iloc_last(Column(x, "volume_usd")) > SumSeq(Column(x, "volume_usd")) * 10

\* the lambda of lines 167-168; mean = sum / count
pump_lambda(x) ==
    /\ iloc_last(Column(x, "price_usd")) > MaxSeq(Column(x, "price_usd")) * 2
    /\ Len(x) * iloc_last(Column(x, "volume_usd")) > SumSeq(Column(x, "volume_usd")) * 10

\* lines 156-160
RugPullTokens(df) == {t \in GroupKeys(df) : rug_pull_lambda(Group(df, t))}

\* lines 166-170
PumpTokens(df) == {t \in GroupKeys(df) : pump_lambda(Group(df, t))}

(***************************************************************************)
(* The state after construction: the blacklists are the configured seeds,  *)
(* the table is empty, no cycle runs.                                      *)
(*                                                                         *)
(* pc is the position of the bot: "idle" in the sleep of line 249, "token" *)
(* at the head of the loop of line 178 for tokens[tokIdx], "pair" in the   *)
(* loop of line 184 with `pairs` pairs left, "analyze" at line 236,        *)
(* "crashed" once an exception has left fetch_and_save_data.               *)
(* cur observes the iteration of the pair loop that the last step ran (its *)
(* pair, its locals, the calls it made); it is NoCur after any other step. *)
(* history lists the pairs evaluated so far with their verdicts.           *)
(* rug_pulls, pumps and sent are the two lists of the last analyze_data    *)
(* and the Telegram messages it posted.                                    *)
(***************************************************************************)
NoCur ==
    [token |-> "", pair |-> [devAddress |-> "", priceUsd |-> 0, volume |-> 0,
                             liquidity |-> 0, fdv |-> 0],
     verdict |-> "None", gate |-> 0, calls |-> <<>>, raised |-> FALSE,
     rugcheck_status |-> NotReached, supply_distribution |-> <<>>,
     fake_volume_percentage |-> 0, codes |-> NoCodes]

Init ==
    /\ COIN_BLACKLIST \in CoinSeeds
    /\ DEV_BLACKLIST \in DevSeeds
    /\ db = <<>>
    /\ pc = "idle"
    /\ tokIdx = 0
    /\ pairs = 0
    /\ cycle = 0
    /\ cur = NoCur
    /\ history = <<>>
    /\ rug_pulls = {}
    /\ pumps = {}
    /\ sent = <<>>

(***************************************************************************)
(* main, lines 247-249: the loop starts a cycle.                           *)
(***************************************************************************)
StartCycle ==
    /\ pc = "idle"
    /\ cycle < MaxCycles
    /\ pc' = "token"
    /\ tokIdx' = 1
    /\ cycle' = cycle + 1
    /\ rug_pulls' = {}
    /\ pumps' = {}
    /\ sent' = <<>>
    /\ cur' = NoCur
    /\ UNCHANGED <<COIN_BLACKLIST, DEV_BLACKLIST, db, pairs, history>>

\* the position after the pairs of token i are done
NextTokenPc(i) == IF i + 1 > Len(tokens) THEN "analyze" ELSE "token"

(***************************************************************************)
(* Lines 179-181: a blacklisted token is skipped before any fetch.         *)
(***************************************************************************)
SkipToken ==
    /\ pc = "token"
    /\ tokens[tokIdx] \in COIN_BLACKLIST
    /\ pc' = NextTokenPc(tokIdx)
    /\ tokIdx' = tokIdx + 1
    /\ cur' = NoCur
    /\ UNCHANGED <<COIN_BLACKLIST, DEV_BLACKLIST, db, pairs, cycle, history,
                   rug_pulls, pumps, sent>>

(***************************************************************************)
(* Line 183 and fetch_token_data, lines 56-64: code 200 gives the pairs    *)
(* (n of them), another code gives [], an exception of requests.get leaves *)
(* the cycle.                                                              *)
(***************************************************************************)
FetchToken ==
    /\ pc = "token"
    /\ tokens[tokIdx] \notin COIN_BLACKLIST
    /\ \E code \in {"200", "500", "raise"}, n \in 0..MaxPairs :
          /\ n <= MaxEvals - Len(history)
          /\ code # "200" => n = 0
          /\ IF code = "raise"
             THEN pc' = "crashed" /\ UNCHANGED <<tokIdx, pairs>>
             ELSE IF n = 0
                  THEN pc' = NextTokenPc(tokIdx) /\ tokIdx' = tokIdx + 1
                       /\ UNCHANGED pairs
                  ELSE pc' = "pair" /\ pairs' = n /\ UNCHANGED tokIdx
    /\ cur' = NoCur
    /\ UNCHANGED <<COIN_BLACKLIST, DEV_BLACKLIST, db, cycle, history,
                   rug_pulls, pumps, sent>>

(***************************************************************************)
(* Lines 184-235: one iteration of the loop over the pairs of the token.   *)
(***************************************************************************)
EvalPair ==
    /\ pc = "pair"
    /\ pairs > 0
    /\ \E m \in PairMetrics, d \in Devs :
        LET token == tokens[tokIdx]
            pair == [devAddress |-> d, priceUsd |-> m.priceUsd, volume |-> m.volume,
                     liquidity |-> m.liquidity, fdv |-> m.fdv]
            clock == Len(history) + 1
        IN \E o \in Evaluate(token, pair) :
             /\ COIN_BLACKLIST' = IF o.ban THEN COIN_BLACKLIST \cup {token}
                                  ELSE COIN_BLACKLIST
             /\ DEV_BLACKLIST' = IF o.ban THEN DEV_BLACKLIST \cup {pair.devAddress}
                                 ELSE DEV_BLACKLIST
             /\ db' = IF o.insert
                      THEN save_to_db(db, token, pair.priceUsd, pair.volume,
                                      pair.liquidity, pair.fdv, pair.devAddress,
                                      o.fake_volume_percentage, o.rugcheck_status,
                                      is_bundled_supply(o.supply_distribution), clock)
                      ELSE db
             /\ cur' = [token |-> token, pair |-> pair, verdict |-> o.verdict,
                        gate |-> o.gate, calls |-> o.calls, raised |-> o.raised,
                        rugcheck_status |-> o.rugcheck_status,
                        supply_distribution |-> o.supply_distribution,
                        fake_volume_percentage |-> o.fake_volume_percentage,
                        codes |-> o.codes]
             /\ history' = Append(history, [token |-> token, dev |-> pair.devAddress,
                                            verdict |-> o.verdict, cycle |-> cycle])
             /\ IF o.raised
                THEN pc' = "crashed" /\ UNCHANGED <<tokIdx, pairs>>
                ELSE IF pairs = 1
                     THEN pc' = NextTokenPc(tokIdx) /\ tokIdx' = tokIdx + 1 /\ pairs' = 0
                     ELSE pc' = "pair" /\ pairs' = pairs - 1 /\ UNCHANGED tokIdx
    /\ UNCHANGED <<cycle, rug_pulls, pumps, sent>>

(***************************************************************************)
(* Line 236 and analyze_data, lines 150-173.  The read of the table or a   *)
(* post to Telegram may raise, which leaves the cycle.                     *)
(***************************************************************************)
\* line 152 reading only the rows inserted in the running cycle
read_sql_query_this_cycle(table) ==
    SelectSeq(table, LAMBDA r : history[r.timestamp].cycle = cycle)

\* line 152: SELECT * FROM market_data, every row of the table
read_sql_query(table) == table

Message(kind, toks, resp) == [kind |-> kind, tokens |-> toks, code |-> resp.code]

\* the outcomes of a post that is made only under a condition
PostIf(made) == IF made THEN PostResponses ELSE {[code |-> ""]}

AnalyzeData ==
    /\ pc = "analyze"
    /\ \E read \in {"ok", "raise"} :
          IF read = "raise"
          THEN pc' = "crashed" /\ UNCHANGED <<rug_pulls, pumps, sent>>
          ELSE LET df == read_sql_query(db)
                   rp == RugPullTokens(df)
                   pm == PumpTokens(df)
               IN \E tg1 \in PostIf(rp # {}) :
                    LET m1 == IF rp # {} THEN <<Message("rug_pulls", rp, tg1)>>
                              ELSE <<>>
                    IN /\ rug_pulls' = rp
                       /\ IF tg1.code = "raise"
                          THEN pc' = "crashed" /\ pumps' = {} /\ sent' = m1
                          ELSE \E tg2 \in PostIf(pm # {}) :
                                 /\ pumps' = pm
                                 /\ sent' = IF pm # {}
                                            THEN Append(m1, Message("pumps", pm, tg2))
                                            ELSE m1
                                 /\ pc' = IF tg2.code = "raise" THEN "crashed"
                                          ELSE "idle"
    /\ cur' = NoCur
    /\ UNCHANGED <<COIN_BLACKLIST, DEV_BLACKLIST, db, tokIdx, pairs, cycle, history>>

Next ==
    \/ StartCycle
    \/ SkipToken
    \/ FetchToken
    \/ EvalPair
    \/ AnalyzeData

Spec == Init /\ [][Next]_vars

(***************************************************************************)
(* The bundled-supply check on its own: lines 208-212 applied to a supply  *)
(* distribution drawn from the lists of at most MaxWallets shares.         *)
(***************************************************************************)
ShareValues == {5, 10, 30, 40, 50}

InitBundled ==
    /\ COIN_BLACKLIST = {}
    /\ DEV_BLACKLIST = {}
    /\ db = <<>>
    /\ pc = "bundled"
    /\ tokIdx = 1
    /\ pairs = 1
    /\ cycle = 1
    /\ \E n \in 0..MaxWallets, d \in Devs :
        \E sd \in [1..n -> ShareValues] :
          cur = [NoCur EXCEPT !.token = tokens[1], !.pair.devAddress = d,
                              !.rugcheck_status = "Good",
                              !.supply_distribution = sd, !.gate = 3,
                              !.calls = <<"rugcheck">>, !.codes.rug = "200"]
    /\ history = <<>>
    /\ rug_pulls = {}
    /\ pumps = {}
    /\ sent = <<>>

BundledSupplyCheck ==
    /\ pc = "bundled"
    /\ LET bundled == is_bundled_supply(cur.supply_distribution)
       IN /\ cur' = [cur EXCEPT !.gate = 4,
                                !.verdict = IF bundled THEN "RejectedBundledSupply"
                                            ELSE "NotBundled"]
          /\ COIN_BLACKLIST' = IF bundled THEN COIN_BLACKLIST \cup {cur.token}
                               ELSE COIN_BLACKLIST
          /\ DEV_BLACKLIST' = IF bundled THEN DEV_BLACKLIST \cup {cur.pair.devAddress}
                              ELSE DEV_BLACKLIST
    /\ pc' = "checked"
    /\ UNCHANGED <<db, tokIdx, pairs, cycle, history, rug_pulls, pumps, sent>>

NextBundled == BundledSupplyCheck

SpecBundled == InitBundled /\ [][NextBundled]_vars

(***************************************************************************)
(* analyze_data on its own: line 236 on a table drawn from the tables of   *)
(* at most MaxHist rows.  A row is a token with one of the observations    *)
(* <<price, liquidity, volume>>; the negative ones are values the feed is  *)
(* not checked for (price) or that pass only under a negative minimum.     *)
(***************************************************************************)
Observations ==
    { <<10, 100, 100>>, <<20, 50, 120>>, <<4, 5, 2000>>,
      <<5, 100, 100>>,  <<6, 50, 120>>,  <<15, 5, 2000>>,
      <<0, 0, 0>>, <<0, 0, -1>>, <<-1, 5, 100>>, <<-1, -1, -1>> }

ObservedRow(i, t, o) ==
    [id |-> i, token_address |-> t, price_usd |-> o[1], volume_usd |-> o[3],
     liquidity_usd |-> o[2], market_cap_usd |-> MIN_MARKET_CAP_USD,
     dev_address |-> "", fake_volume_percentage |-> 0, rugcheck_status |-> "Good",
     is_bundled_supply |-> FALSE, timestamp |-> i]

InitAnalyze ==
    /\ COIN_BLACKLIST = {}
    /\ DEV_BLACKLIST = {}
    /\ \E n \in 0..MaxHist :
          \E f \in [1..n -> Tokens \X Observations] :
             db = [i \in 1..n |-> ObservedRow(i, f[i][1], f[i][2])]
    /\ pc = "analyze"
    /\ tokIdx = Len(tokens) + 1
    /\ pairs = 0
    /\ cycle = 1
    /\ cur = NoCur
    /\ history = <<>>
    /\ rug_pulls = {}
    /\ pumps = {}
    /\ sent = <<>>

NextAnalyze == AnalyzeData

SpecAnalyze == InitAnalyze /\ [][NextAnalyze]_vars

(***************************************************************************)
(* Properties.                                                             *)
(***************************************************************************)
\* the rows of the table that were inserted for the i-th evaluated pair
RowsOfCandidate(i) == {k \in 1..Len(db) : db[k].timestamp = i}

\* a step that ran one iteration of the pair loop
EvalStep == history' # history

RejectedVerdicts ==
    {"RejectedBlacklisted", "RejectedFilterThreshold", "RejectedRugCheck",
     "RejectedBundledSupply", "RejectedFakeVolume"}

\* verdicts of the pairs that went through all five checks
PassedGates1to5(v) == v \in {"Accepted", "PersistFailed"}

CallMade(c, call) == \E i \in 1..Len(c.calls) : c.calls[i] = call

\* C1 as stated: the table holds exactly one row for every pair that passed
\* gates 1-5 and none for a pair rejected at a gate.
C1_OneRecordPerPassingCandidate ==
    \A i \in 1..Len(history) :
       Cardinality(RowsOfCandidate(i)) =
          IF PassedGates1to5(history[i].verdict) THEN 1 ELSE 0

\* C1 amended: the table holds exactly one row, carrying the pair's token and
\* developer, for every pair that passed gates 1-5 and whose insert did not
\* raise, no row for any other pair, and no row that belongs to no pair.
C1_OneRecordPerStoredCandidate ==
    /\ \A i \in 1..Len(history) :
          /\ Cardinality(RowsOfCandidate(i)) =
                IF history[i].verdict = "Accepted" THEN 1 ELSE 0
          /\ \A k \in RowsOfCandidate(i) :
                /\ db[k].token_address = history[i].token
                /\ db[k].dev_address = history[i].dev
    /\ \A k \in 1..Len(db) : db[k].timestamp \in 1..Len(history)

C1_Witness ==
    /\ Len(db) = 1
    /\ \E i, j \in 1..Len(history) :
          /\ history[i].verdict = "Accepted"
          /\ history[j].verdict \in RejectedVerdicts

\* C2: the calls of an iteration are those of the gates up to the first
\* failing one: none for a blacklisted pair, no rug-check for a pair that
\* misses a filter, no fake-volume call after a failed rug-check or bundled
\* check, and no persist, trade or notify call for a rejected pair.
C2_CallsStopAtFirstFailingGate ==
    [][EvalStep =>
         LET c == cur'
             black == c.token \in COIN_BLACKLIST
                      \/ c.pair.devAddress \in DEV_BLACKLIST
             filtered == c.pair.volume < MIN_VOLUME_USD
                         \/ c.pair.liquidity < MIN_LIQUIDITY_USD
                         \/ c.pair.fdv < MIN_MARKET_CAP_USD
         IN /\ black => c.verdict = "RejectedBlacklisted" /\ c.calls = <<>>
            /\ (~black /\ filtered) =>
                  c.verdict = "RejectedFilterThreshold" /\ c.calls = <<>>
            /\ c.verdict \in {"RejectedRugCheck", "RejectedBundledSupply"} =>
                  c.calls = <<"rugcheck">>
            /\ c.verdict = "RejectedFakeVolume" =>
                  c.calls = <<"rugcheck", "fake_volume">>
            /\ c.verdict \in RejectedVerdicts =>
                  /\ ~CallMade(c, "persist")
                  /\ ~CallMade(c, "trade")
                  /\ ~CallMade(c, "notify")
                  /\ db' = db]_vars

C2_Witness ==
    /\ cur.verdict = "RejectedFilterThreshold"
    /\ cur.calls = <<>>
    /\ \E i \in 1..Len(history) : history[i].verdict = "RejectedFakeVolume"

\* C3: a rug-check result whose status is not exactly "Good" (the failure
\* placeholder included) rejects the pair, stores no row for it, and its
\* token and developer are blacklisted from then on.
C3_NonGoodRugCheckRejectsAndBans ==
    /\ cur.codes.rug = "500" => cur.rugcheck_status # "Good"
    /\ (cur.codes.rug \in {"200", "500"} /\ cur.rugcheck_status # "Good") =>
          /\ cur.verdict = "RejectedRugCheck"
          /\ cur.token \in COIN_BLACKLIST
          /\ cur.pair.devAddress \in DEV_BLACKLIST
    /\ \A i \in 1..Len(history) :
          history[i].verdict = "RejectedRugCheck" =>
             /\ history[i].token \in COIN_BLACKLIST
             /\ history[i].dev \in DEV_BLACKLIST
             /\ RowsOfCandidate(i) = {}

C3_Witness ==
    /\ cur.codes.rug = "500"
    /\ cur.verdict = "RejectedRugCheck"
    /\ \E i \in 1..Len(history) :
          /\ i < Len(history)
          /\ history[i].verdict = "RejectedRugCheck"
          /\ history[i].token \in COIN_BLACKLIST

\* C5: once a pair is rejected at gate 3 or 4, every pair evaluated later
\* that has its token or its developer is rejected at gate 1, with no call.
C5_BanVisibleToLaterCandidates ==
    \A i, j \in 1..Len(history) :
       ( /\ i < j
         /\ history[i].verdict \in {"RejectedRugCheck", "RejectedBundledSupply"}
         /\ \/ history[j].token = history[i].token
            \/ history[j].dev = history[i].dev )
       => /\ history[j].verdict = "RejectedBlacklisted"
          /\ (j = Len(history) /\ cur # NoCur) => (cur.gate = 1 /\ cur.calls = <<>>)

C5_Witness ==
    \E i, j \in 1..Len(history) :
       /\ i < j
       /\ history[i].verdict = "RejectedBundledSupply"
       /\ history[j].token # history[i].token
       /\ history[j].dev = history[i].dev
       /\ history[j].verdict = "RejectedBlacklisted"

\* C6: the blacklists change only by a rejection at gate 3 or 4, which adds
\* exactly the pair's token and developer; every other step leaves both sets
\* as they are, and no step removes a member.
C6_BlacklistsGrowOnlyAtGates3And4 ==
    [][LET banStep == EvalStep /\ cur'.verdict \in {"RejectedRugCheck",
                                                    "RejectedBundledSupply"}
       IN /\ banStep => /\ COIN_BLACKLIST' = COIN_BLACKLIST \cup {cur'.token}
                        /\ DEV_BLACKLIST' = DEV_BLACKLIST \cup {cur'.pair.devAddress}
          /\ ~banStep => /\ COIN_BLACKLIST' = COIN_BLACKLIST
                         /\ DEV_BLACKLIST' = DEV_BLACKLIST]_vars

C6_Witness ==
    /\ cur.verdict = "RejectedBundledSupply"
    /\ Cardinality(COIN_BLACKLIST) = 2
    /\ Cardinality(DEV_BLACKLIST) = 2
    /\ \E i \in 1..Len(history) : history[i].verdict = "RejectedRugCheck"

\* C10: gate 5 rejects exactly when the fake-volume percentage is strictly
\* above the maximum; a percentage equal to the maximum is not rejected.
C10_FakeVolumeAtMaximumPasses ==
    cur.codes.fake \in {"200", "500"} =>
       /\ cur.verdict = "RejectedFakeVolume"
             <=> cur.fake_volume_percentage > MAX_FAKE_VOLUME_PERCENTAGE
       /\ cur.fake_volume_percentage = MAX_FAKE_VOLUME_PERCENTAGE =>
             PassedGates1to5(cur.verdict)

C10_Witness ==
    /\ cur.codes.fake = "200"
    /\ cur.fake_volume_percentage = MAX_FAKE_VOLUME_PERCENTAGE
    /\ cur.verdict = "Accepted"
    /\ \E k \in 1..Len(db) :
          /\ db[k].timestamp = Len(history)
          /\ db[k].fake_volume_percentage = MAX_FAKE_VOLUME_PERCENTAGE

(***************************************************************************)
(* Properties of the bundled-supply check (SpecBundled).                   *)
(***************************************************************************)
RECURSIVE SumAt(_, _)
SumAt(sd, I) == IF I = {} THEN 0
                ELSE LET i == CHOOSE x \in I : TRUE IN sd[i] + SumAt(sd, I \ {i})

\* the sum of the three largest shares by value, of all when fewer than three
LargestThreeSum(sd) ==
    LET n == IF Len(sd) < 3 THEN Len(sd) ELSE 3
        sums == {SumAt(sd, I) : I \in {J \in SUBSET (1..Len(sd)) : Cardinality(J) = n}}
    IN CHOOSE m \in sums : \A v \in sums : v <= m

\* C4 as stated: the check rejects iff the sum of the three largest shares
\* by value is strictly above the threshold, whatever the order of the list.
C4_BundledUsesThreeLargestShares ==
    pc = "checked" =>
       ( cur.verdict = "RejectedBundledSupply"
            <=> LargestThreeSum(cur.supply_distribution) > BUNDLED_SUPPLY_THRESHOLD )

(***************************************************************************)
(* Properties of analyze_data (SpecAnalyze).                               *)
(***************************************************************************)
\* analyze_data has returned: its two lists are those of the whole table
Scanned == pc = "idle" /\ cycle > 0

RowsOfToken(t) == {k \in 1..Len(db) : db[k].token_address = t}

\* the row of t with the greatest timestamp
LatestRow(t) ==
    db[CHOOSE k \in RowsOfToken(t) :
          \A j \in RowsOfToken(t) : db[j].timestamp <= db[k].timestamp]

MaxOfField(t, c) ==
    CHOOSE v \in {db[k][c] : k \in RowsOfToken(t)} :
       \A k \in RowsOfToken(t) : db[k][c] <= v

RECURSIVE SumOfField(_, _)
SumOfField(S, c) ==
    IF S = {} THEN 0
    ELSE LET k == CHOOSE x \in S : TRUE IN db[k][c] + SumOfField(S \ {k}, c)

\* the prices, liquidities or volumes of t in timestamp order
SeriesOf(t, c) == Column(SelectSeq(db, LAMBDA r : r.token_address = t), c)

\* C7: the rug-pull signal fires for a token iff its latest price is strictly
\* below half its maximum price and its latest liquidity strictly below one
\* tenth of its maximum liquidity.
C7_RugPullFiresIffBothDrops ==
    Scanned =>
       \A t \in Tokens :
          t \in rug_pulls
             <=> /\ RowsOfToken(t) # {}
                 /\ 2 * LatestRow(t).price_usd < MaxOfField(t, "price_usd")
                 /\ 10 * LatestRow(t).liquidity_usd < MaxOfField(t, "liquidity_usd")

C7_Witness ==
    /\ Scanned
    /\ \E t \in Tokens :
          /\ SeriesOf(t, "price_usd") = <<10, 20, 4>>
          /\ SeriesOf(t, "liquidity_usd") = <<100, 50, 5>>
          /\ t \in rug_pulls

\* C8: the pump signal fires for a token iff its latest price is strictly
\* above twice its maximum price and its latest volume strictly above ten
\* times its mean volume; prices 5, 6, 15 with volumes 100, 120, 2000 do not
\* fire.
C8_PumpFiresIffBothRises ==
    Scanned =>
       \A t \in Tokens :
          t \in pumps
             <=> /\ RowsOfToken(t) # {}
                 /\ LatestRow(t).price_usd > 2 * MaxOfField(t, "price_usd")
                 /\ Cardinality(RowsOfToken(t)) * LatestRow(t).volume_usd
                       > 10 * SumOfField(RowsOfToken(t), "volume_usd")

C8_Witness ==
    /\ Scanned
    /\ \E t \in Tokens :
          /\ SeriesOf(t, "price_usd") = <<5, 6, 15>>
          /\ SeriesOf(t, "volume_usd") = <<100, 120, 2000>>
          /\ t \notin pumps

\* C9: a token with exactly one row, of non-negative price, liquidity and
\* volume, fires neither signal.
C9_SingleRecordNeverFires ==
    Scanned =>
       \A t \in Tokens :
          ( /\ Cardinality(RowsOfToken(t)) = 1
            /\ LatestRow(t).price_usd >= 0
            /\ LatestRow(t).liquidity_usd >= 0
            /\ LatestRow(t).volume_usd >= 0 )
          => (t \notin rug_pulls /\ t \notin pumps)

C9_Witness ==
    /\ Scanned
    /\ \E t, u \in Tokens :
          /\ Cardinality(RowsOfToken(t)) = 1
          /\ LatestRow(t).price_usd >= 0
          /\ LatestRow(t).liquidity_usd >= 0
          /\ LatestRow(t).volume_usd >= 0
          /\ t \notin rug_pulls
          /\ u \in rug_pulls

(***************************************************************************)
(* Properties of the handling of failures (Spec).                          *)
(***************************************************************************)
\* the cycle was left by an exception raised inside the loops over tokens
\* and pairs (lines 178-235), before line 236
LeftInLoops == pc = "crashed" /\ tokIdx <= Len(tokens)

\* C11 as stated: a failure of a collaborator call or of the insert for one
\* pair never ends the cycle: the loops go on to the remaining pairs and
\* tokens and analyze_data is called at the end.  As a safety property: no
\* run leaves the cycle from inside the loops.
C11_FailureNeverEndsCycle == ~LeftInLoops

\* C12: when the insert raises for a pair that passed gates 1-5, no trade
\* call and no notification is made for it, no row is stored for it, and the
\* exception is not passed over: it leaves the iteration, which does not go
\* on as for an accepted pair.
C12_FailedInsertStopsSideEffects ==
    /\ cur.verdict = "PersistFailed" =>
          /\ cur.calls = <<"rugcheck", "fake_volume", "persist">>
          /\ ~CallMade(cur, "trade")
          /\ ~CallMade(cur, "notify")
          /\ cur.codes.trade = "" /\ cur.codes.notify = ""
          /\ cur.raised
          /\ pc = "crashed"
    /\ \A i \in 1..Len(history) :
          history[i].verdict = "PersistFailed" =>
             /\ RowsOfCandidate(i) = {}
             /\ i = Len(history)

C12_Witness ==
    /\ cur.verdict = "PersistFailed"
    /\ cur.codes.fake = "200"
    /\ pc = "crashed"
    /\ Len(history) = 2
    /\ Len(db) = 1

\* the row that line 221 stores for the pair observed in c, as the k-th row
\* of the table, for the i-th evaluated pair
StoredRow(c, k, i) ==
    [id |-> k, token_address |-> c.token, price_usd |-> c.pair.priceUsd,
     volume_usd |-> c.pair.volume, liquidity_usd |-> c.pair.liquidity,
     market_cap_usd |-> c.pair.fdv, dev_address |-> c.pair.devAddress,
     fake_volume_percentage |-> c.fake_volume_percentage,
     rugcheck_status |-> c.rugcheck_status, is_bundled_supply |-> FALSE,
     timestamp |-> i]

\* C13: for an accepted pair the calls are persist, then trade, then notify:
\* a trade call is made only with the pair's row already in the table, the
\* notification call is made iff the trade call returned success, and a
\* trade or notification that fails (non-200 or exception) leaves the row
\* as it was stored; no step changes or removes a stored row.
C13_PersistThenTradeThenNotify ==
    [][/\ Len(db') >= Len(db)
       /\ \A k \in 1..Len(db) : db'[k] = db[k]
       /\ EvalStep =>
             LET c == cur'
                 c4 == <<"rugcheck", "fake_volume", "persist", "trade">>
             IN /\ CallMade(c, "trade") =>
                      /\ c.verdict = "Accepted"
                      /\ c.calls \in {c4, Append(c4, "notify")}
                      /\ db' = Append(db, StoredRow(c, Len(db) + 1, Len(history')))
                /\ CallMade(c, "notify") <=> c.codes.trade = "200"
                /\ c.verdict = "Accepted" => CallMade(c, "trade")]_vars

C13_Witness ==
    /\ cur.verdict = "Accepted"
    /\ cur.codes.trade = "200"
    /\ cur.codes.notify = "500"
    /\ cur.calls = <<"rugcheck", "fake_volume", "persist", "trade", "notify">>
    /\ \E i \in 1..Len(history) :
          /\ i < Len(history)
          /\ history[i].verdict = "Accepted"
    /\ Len(db) = 2

(***************************************************************************)
(* Properties of the scan within the cycle (Spec).                         *)
(***************************************************************************)
\* the rug-pull condition on the rows of t in the whole table
RugPullFires(t) ==
    /\ RowsOfToken(t) # {}
    /\ 2 * LatestRow(t).price_usd < MaxOfField(t, "price_usd")
    /\ 10 * LatestRow(t).liquidity_usd < MaxOfField(t, "liquidity_usd")

\* the pump condition on the rows of t in the whole table
PumpFires(t) ==
    /\ RowsOfToken(t) # {}
    /\ LatestRow(t).price_usd > 2 * MaxOfField(t, "price_usd")
    /\ Cardinality(RowsOfToken(t)) * LatestRow(t).volume_usd
          > 10 * SumOfField(RowsOfToken(t), "volume_usd")

\* C14: in every cycle analyze_data runs after the last insert of the cycle:
\* a row is inserted only by an iteration of the pair loop, never while the
\* cycle is at analyze_data or after it, and the table is the same at the
\* end of analyze_data as at its read; what it reports is computed from all
\* the rows of the table, those of earlier cycles included.
C14_ScanAfterInsertsOverWholeTable ==
    [][/\ db' # db => (pc = "pair" /\ pc' \in {"pair", "token", "analyze", "crashed"})
       /\ pc \in {"analyze", "idle", "crashed"} => db' = db
       /\ (pc = "analyze" /\ pc' = "idle") =>
             /\ rug_pulls' = {t \in Tokens : RugPullFires(t)}
             /\ pumps' = {t \in Tokens : PumpFires(t)}]_vars

C14_Witness ==
    /\ Scanned
    /\ cycle = 2
    /\ Len(db) = 2
    /\ history[db[1].timestamp].cycle = 1
    /\ history[db[2].timestamp].cycle = 2
    /\ db[1].token_address = db[2].token_address
    /\ db[2].token_address \in rug_pulls

(***************************************************************************)
(* Properties of the verdict as a function of its inputs (Spec).           *)
(***************************************************************************)
\* the two iterations c1 and c2 got the same response to every call that
\* both of them made
SameResponses(c1, c2) ==
    /\ (c1.codes.rug # "" /\ c2.codes.rug # "") =>
          /\ c1.codes.rug = c2.codes.rug
          /\ c1.rugcheck_status = c2.rugcheck_status
          /\ c1.supply_distribution = c2.supply_distribution
    /\ (c1.codes.fake # "" /\ c2.codes.fake # "") =>
          /\ c1.codes.fake = c2.codes.fake
          /\ c1.fake_volume_percentage = c2.fake_volume_percentage
    /\ (c1.codes.trade # "" /\ c2.codes.trade # "") => c1.codes.trade = c2.codes.trade
    /\ (c1.codes.notify # "" /\ c2.codes.notify # "") => c1.codes.notify = c2.codes.notify

\* C15: two iterations of the pair loop, one after the other, on the same
\* token and pair, with the blacklists at the start of the second as at the
\* start of the first (the first added nothing to them) and the same
\* response to every call both made (the insert included: the first one's
\* did not raise, or there would be no second), end with the same verdict,
\* although the table, the clock and the loop counters differ between them.
C15_SameInputsSameVerdict ==
    [][( /\ EvalStep
         /\ cur # NoCur
         /\ cur'.token = cur.token
         /\ cur'.pair = cur.pair
         /\ cur.verdict \notin {"RejectedRugCheck", "RejectedBundledSupply"}
         /\ SameResponses(cur, cur')
         /\ (CallMade(cur, "persist") /\ CallMade(cur', "persist")) => db' # db )
       => /\ cur'.verdict = cur.verdict
          /\ cur'.gate = cur.gate]_vars

C15_Witness ==
    /\ Len(history) = 2
    /\ history[1].token = history[2].token
    /\ history[1].dev = history[2].dev
    /\ history[1].cycle = history[2].cycle
    /\ history[1].verdict = "Accepted"
    /\ cur.verdict = "Accepted"
    /\ Len(db) = 2
    /\ [db[2] EXCEPT !.id = 1, !.timestamp = 1] = db[1]

(***************************************************************************)
(* Properties of the failed fake-volume lookup (Spec).                     *)
(***************************************************************************)
\* the pair just evaluated has its row in the table, with fake volume 0
StoredWithFakeVolumeZero ==
    \E k \in RowsOfCandidate(Len(history)) :
       /\ db[k].token_address = cur.token
       /\ db[k].fake_volume_percentage = 0

AnalyzerRan == cycle > 0 /\ tokIdx > Len(tokens) /\ pc \in {"idle", "crashed"}

\* the messages of one kind posted to Telegram in this run of analyze_data
MessagesOf(kind) == {i \in 1..Len(sent) : sent[i].kind = kind}

\* C17 as stated: a run of analyze_data posts at most one rug-pull message
\* and at most one pump message; it posts the message of a signal iff some
\* token fires the signal, and the message lists exactly the tokens that
\* fire it (a token that fires both is in both).
C17_OneMessagePerFiringSignal ==
    AnalyzerRan =>
       /\ Cardinality(MessagesOf("rug_pulls")) <= 1
       /\ Cardinality(MessagesOf("pumps")) <= 1
       /\ MessagesOf("rug_pulls") # {} <=> (\E t \in Tokens : RugPullFires(t))
       /\ MessagesOf("pumps") # {} <=> (\E t \in Tokens : PumpFires(t))
       /\ \A i \in MessagesOf("rug_pulls") :
             sent[i].tokens = {t \in Tokens : RugPullFires(t)}
       /\ \A i \in MessagesOf("pumps") :
             sent[i].tokens = {t \in Tokens : PumpFires(t)}

(***************************************************************************)
(* Properties of the empty developer address (Spec).                       *)
(***************************************************************************)
\* C18: a pair with the empty developer address goes through the checks
\* like any other pair while "" is not in the developer blacklist (it is
\* rejected at gate 1 only for its token, and banned at gates 3 and 4 as any
\* pair is); once a pair with the empty developer address was rejected at
\* gate 3 or 4, "" is in the developer blacklist and every later pair with
\* the empty developer address, whatever its token, is rejected at gate 1.
C18_EmptyDeveloperAddressIsAKey ==
    [][EvalStep =>
         LET c == cur'
             bannedBefore == \E i \in 1..Len(history) :
                                /\ history[i].dev = ""
                                /\ history[i].verdict \in {"RejectedRugCheck",
                                                            "RejectedBundledSupply"}
         IN c.pair.devAddress = "" =>
               /\ ("" \notin DEV_BLACKLIST /\ c.token \notin COIN_BLACKLIST) =>
                     /\ c.gate >= 2
                     /\ c.verdict # "RejectedBlacklisted"
               /\ c.verdict \in {"RejectedRugCheck", "RejectedBundledSupply"} =>
                     "" \in DEV_BLACKLIST'
               /\ bannedBefore =>
                     /\ "" \in DEV_BLACKLIST
                     /\ c.verdict = "RejectedBlacklisted"
                     /\ c.gate = 1
                     /\ c.calls = <<>>]_vars

C18_Witness ==
    /\ Len(history) = 2
    /\ history[1].dev = ""
    /\ history[1].verdict = "RejectedRugCheck"
    /\ history[2].dev = ""
    /\ history[2].token # history[1].token
    /\ history[2].verdict = "RejectedBlacklisted"
    /\ "" \in DEV_BLACKLIST
    /\ cur.gate = 1

(***************************************************************************)
(* Properties of the stored rows (Spec).                                   *)
(***************************************************************************)
\* C19: every row of the table has rug-check status exactly "Good", the
\* bundled flag false, a fake-volume percentage not above the maximum, and
\* volume, liquidity and market cap each at or above its minimum.
C19_StoredRowsPassedEveryGate ==
    \A k \in 1..Len(db) :
       /\ db[k].rugcheck_status = "Good"
       /\ db[k].is_bundled_supply = FALSE
       /\ db[k].fake_volume_percentage <= MAX_FAKE_VOLUME_PERCENTAGE
       /\ db[k].volume_usd >= MIN_VOLUME_USD
       /\ db[k].liquidity_usd >= MIN_LIQUIDITY_USD
       /\ db[k].market_cap_usd >= MIN_MARKET_CAP_USD

C19_Witness ==
    /\ Len(db) = 2
    /\ db[1].fake_volume_percentage = MAX_FAKE_VOLUME_PERCENTAGE
    /\ db[1].volume_usd = MIN_VOLUME_USD
    /\ db[2].fake_volume_percentage = 0
    /\ db[2].liquidity_usd > MIN_LIQUIDITY_USD
    /\ \A k \in 1..2 : db[k].rugcheck_status = "Good" /\ ~db[k].is_bundled_supply

(***************************************************************************)
(* Properties of the pump signal (SpecAnalyze).                            *)
(***************************************************************************)
NonNegativePrices(t) == \A k \in RowsOfToken(t) : db[k].price_usd >= 0

\* the volume half of the pump condition on the rows of t
VolumeSpikes(t) ==
    Cardinality(RowsOfToken(t)) * LatestRow(t).volume_usd
       > 10 * SumOfField(RowsOfToken(t), "volume_usd")

\* C20: a token whose stored prices are all non-negative is never in the
\* pump list and never in a pump message, whatever the number of its rows
\* and whatever its volumes; when no stored price is negative no pump
\* message is posted.
C20_PumpNeverFiresOnNonNegativePrices ==
    /\ \A t \in Tokens :
          NonNegativePrices(t) =>
             /\ t \notin pumps
             /\ \A i \in MessagesOf("pumps") : t \notin sent[i].tokens
    /\ (\A t \in Tokens : NonNegativePrices(t)) => MessagesOf("pumps") = {}

C20_Witness ==
    /\ Scanned
    /\ \E t, u \in Tokens :
          /\ Cardinality(RowsOfToken(t)) >= 2
          /\ NonNegativePrices(t)
          /\ VolumeSpikes(t)
          /\ t \notin pumps
          /\ u \in pumps
    /\ MessagesOf("pumps") # {}

====
